---- MODULE Spec2Model ----
(***************************************************************************)
(* Model of tsrc/flowResult.js: difference, prettyPrint and                *)
(* prettyPrintWithHeader over Flow result objects.                         *)
(*                                                                         *)
(* JavaScript strings are sequences of one-character strings, so that      *)
(* substr, replace, slice and join are computed character by character.    *)
(* FlowError and FlowMessage objects live in a heap (a sequence indexed by *)
(* address) because the code mutates them in place (message.indent,        *)
(* prev.descr) and hands references around; FlowLoc and FlowPos objects    *)
(* are never written by the code and are kept as values.                   *)
(***************************************************************************)
EXTENDS Integers, Sequences, FiniteSets, TLC

VARIABLES heap, current, baseline, orig, result, last

vars == <<heap, current, baseline, orig, result, last>>

(***************************************************************************)
(* Optional and nullable values: a key that is absent (undefined), a null, *)
(* or a value.                                                             *)
(***************************************************************************)
Absent == [k |-> "absent"]

Null == [k |-> "null"]

Some(x) == [k |-> "some", v |-> x]

\* JavaScript's `x != null` for an optional value
NotNull(o) == o.k = "some"

(***************************************************************************)
(* Strings                                                                 *)
(***************************************************************************)
Min(a, b) == IF a < b THEN a ELSE b

Max(a, b) == IF a > b THEN a ELSE b

\* Array(n+1).join(c): the character c repeated n times
Repeat(c, n) == [i \in 1..n |-> c]

Digit(d) == <<"0", "1", "2", "3", "4", "5", "6", "7", "8", "9">>[d + 1]

RECURSIVE NatStr(_)
NatStr(n) == IF n < 10 THEN <<Digit(n)>> ELSE NatStr(n \div 10) \o <<Digit(n % 10)>>

\* String(n), and util.format's %d, of an integer
String(n) == IF n < 0 THEN <<"-">> \o NatStr(0 - n) ELSE NatStr(n)

\* util.format's %s of a nullable string
FormatS(o) ==
    IF o.k = "some" THEN o.v
    ELSE IF o.k = "null" THEN <<"n", "u", "l", "l">>
    ELSE <<"u", "n", "d", "e", "f", "i", "n", "e", "d">>

\* s.substr(0, n)
Substr0(s, n) == SubSeq(s, 1, Min(Max(n, 0), Len(s)))

\* s.slice(-n)
SliceLast(s, n) == SubSeq(s, Max(1, Len(s) - n + 1), Len(s))

\* s.replace(/[^\t ]/g, " ")
BlankOut(s) == [i \in 1..Len(s) |-> IF s[i] \in {"\t", " "} THEN s[i] ELSE " "]

RECURSIVE Join(_, _)
\* parts.join(sep)
Join(parts, sep) ==
    IF parts = <<>> THEN <<>>
    ELSE IF Len(parts) = 1 THEN parts[1]
    ELSE parts[1] \o sep \o Join(Tail(parts), sep)

NL == <<"\n">>

(***************************************************************************)
(* The heap and JSON.                                                      *)
(*                                                                         *)
(* A FlowMessage object is [descr, type, context, loc, indent]; a          *)
(* FlowError object is [kind, level, message, trace, operation, extra]     *)
(* whose message, trace, operation and extra hold addresses of FlowMessage *)
(* objects.  A FlowResult is [passed, errors, flowVersion] with errors a   *)
(* sequence of addresses of FlowError objects.                             *)
(*                                                                         *)
(* JSON.stringify reads the objects an address reaches off the heap and    *)
(* yields the text, represented by its syntax tree (addresses replaced by  *)
(* the objects' contents; an absent key stays absent).  JSON.parse builds  *)
(* fresh objects for a text, at fresh addresses.                           *)
(***************************************************************************)
JSON_stringify_messages(h, refs) == [i \in 1..Len(refs) |-> h[refs[i]]]

RECURSIVE JSON_stringify_extra(_, _)
JSON_stringify_extra(h, extra) ==
    [i \in 1..Len(extra) |->
        [message |-> JSON_stringify_messages(h, extra[i].message),
         children |-> IF NotNull(extra[i].children)
                      THEN Some(JSON_stringify_extra(h, extra[i].children.v))
                      ELSE extra[i].children]]

JSON_stringify_error(h, ref) ==
    LET e == h[ref]
    IN  [kind |-> e.kind,
         level |-> e.level,
         message |-> JSON_stringify_messages(h, e.message),
         trace |-> IF NotNull(e.trace)
                   THEN Some(JSON_stringify_messages(h, e.trace.v))
                   ELSE e.trace,
         operation |-> IF NotNull(e.operation)
                       THEN Some(h[e.operation.v])
                       ELSE e.operation,
         extra |-> IF NotNull(e.extra)
                   THEN Some(JSON_stringify_extra(h, e.extra.v))
                   ELSE e.extra]

JSON_stringify_result(h, r) ==
    [passed |-> r.passed,
     errors |-> [i \in 1..Len(r.errors) |-> JSON_stringify_error(h, r.errors[i])],
     flowVersion |-> r.flowVersion]

\* x bound to a name in F: a JavaScript `const name = x` followed by F
Let(x, F(_)) == F(x)

RECURSIVE JSON_parse_messages(_, _)
JSON_parse_messages(text, h) ==
    IF text = <<>> THEN [val |-> <<>>, heap |-> h]
    ELSE Let(JSON_parse_messages(Tail(text), Append(h, Head(text))), LAMBDA rest :
             [val |-> <<Len(h) + 1>> \o rest.val, heap |-> rest.heap])

\* A nullable value parsed by Parse when it is not null
JSON_parse_nullable(text, h, Parse(_, _)) ==
    IF NotNull(text)
    THEN Let(Parse(text.v, h), LAMBDA p : [val |-> Some(p.val), heap |-> p.heap])
    ELSE [val |-> text, heap |-> h]

\* One FlowMessage object
JSON_parse_message(text, h) == [val |-> Len(h) + 1, heap |-> Append(h, text)]

RECURSIVE JSON_parse_extra(_, _)
JSON_parse_extra(text, h) ==
    IF text = <<>> THEN [val |-> <<>>, heap |-> h]
    ELSE Let(JSON_parse_messages(Head(text).message, h), LAMBDA m :
         Let(JSON_parse_nullable(Head(text).children, m.heap, JSON_parse_extra),
             LAMBDA c :
         Let(JSON_parse_extra(Tail(text), c.heap), LAMBDA rest :
             [val |-> <<[message |-> m.val, children |-> c.val]>> \o rest.val,
              heap |-> rest.heap])))

JSON_parse_error(text, h) ==
    Let(JSON_parse_messages(text.message, h), LAMBDA m :
    Let(JSON_parse_nullable(text.trace, m.heap, JSON_parse_messages), LAMBDA t :
    Let(JSON_parse_nullable(text.operation, t.heap, JSON_parse_message), LAMBDA o :
    Let(JSON_parse_nullable(text.extra, o.heap, JSON_parse_extra), LAMBDA x :
        [val |-> Len(x.heap) + 1,
         heap |-> Append(x.heap,
                         [kind |-> text.kind, level |-> text.level,
                          message |-> m.val, trace |-> t.val,
                          operation |-> o.val, extra |-> x.val])]))))

RECURSIVE JSON_parse_errors(_, _)
JSON_parse_errors(text, h) ==
    IF text = <<>> THEN [val |-> <<>>, heap |-> h]
    ELSE Let(JSON_parse_error(Head(text), h), LAMBDA e :
         Let(JSON_parse_errors(Tail(text), e.heap), LAMBDA rest :
             [val |-> <<e.val>> \o rest.val, heap |-> rest.heap]))

JSON_parse_result(text, h) ==
    Let(JSON_parse_errors(text.errors, h), LAMBDA es :
        [val |-> [passed |-> text.passed, errors |-> es.val,
                  flowVersion |-> text.flowVersion],
         heap |-> es.heap])

(***************************************************************************)
(* difference                                                              *)
(***************************************************************************)
\* A hash of the whole error instead of error.message
Hash_wholeError(h, error) == JSON_stringify_error(h, error)

\* const hash = JSON.stringify(error.message)
Hash(h, error) == JSON_stringify_messages(h, h[error].message)

\* The keys of oldHashes after the first loop; every value stored is an
\* error object, so oldHashes[hash] !== undefined exactly for these keys.
OldHashes(h, b) == {Hash(h, b.errors[i]) : i \in 1..Len(b.errors)}

\* JSON.parse(JSON.stringify(error))
CopyError(h, error) == JSON_parse_error(JSON_stringify_error(h, error), h)

RECURSIVE DifferenceLoop(_, _, _)
\* The second loop: the errors of a, in order, skipping those whose hash is
\* in oldHashes and pushing a copy of each of the others.
DifferenceLoop(h, todo, oldHashes) ==
    IF todo = <<>> THEN [val |-> <<>>, heap |-> h]
    ELSE IF Hash(h, Head(todo)) \in oldHashes
         THEN DifferenceLoop(h, Tail(todo), oldHashes)
         ELSE Let(CopyError(h, Head(todo)), LAMBDA c :
              Let(DifferenceLoop(c.heap, Tail(todo), oldHashes), LAMBDA rest :
                  [val |-> <<c.val>> \o rest.val, heap |-> rest.heap]))

difference(h, a, b) ==
    Let(DifferenceLoop(h, a.errors, OldHashes(h, b)), LAMBDA errors :
        [val |-> [passed |-> Len(errors.val) = 0,
                  errors |-> errors.val,
                  flowVersion |-> a.flowVersion],
         heap |-> errors.heap])

(***************************************************************************)
(* Message planner: getHeader, getKindMessage, getOpReason,                *)
(* getExtraMessages, getTraceReasons                                       *)
(***************************************************************************)
\* indent || 0
IndentOr0(indent) == IF NotNull(indent) THEN indent.v ELSE 0

\* A FlowMessage literal that sets only descr and type
Message(descr, type) ==
    [descr |-> descr, type |-> type, context |-> Absent, loc |-> Absent,
     indent |-> Absent]

mkComment(descr) == Message(descr, "Comment")

NoFile == <<"[", "N", "o", " ", "f", "i", "l", "e", "]">>

getHeader(mainLoc) ==
    <<mkComment((IF NotNull(mainLoc) /\ NotNull(mainLoc.v.source)
                 THEN mainLoc.v.source.v
                 ELSE NoFile)
                \o <<":">>
                \o String(IF NotNull(mainLoc) THEN mainLoc.v.start.line ELSE 0 - 1))>>

internal_error_prefix == <<"I", "n", "t", "e", "r", "n", "a", "l", " ", "e", "r", "r", "o", "r", " ", "(", "s", "e", "e", " ", "l", "o", "g", "s", ")", ":", " ">>

\* The descr getKindMessage chooses, null when it chooses none
KindDescr(kind, level, loc) ==
    IF kind = "internal" /\ level = "error" THEN Some(internal_error_prefix)
    ELSE IF NotNull(loc) /\ loc.v.type = Some("LibFile")
         THEN IF kind = "parse" /\ level = "error"
              THEN Some(<<"L", "i", "b", "r", "a", "r", "y", " ", "p", "a", "r", "s", "e", " ", "e", "r", "r", "o", "r", ":">>)
              ELSE IF kind = "infer"
                   THEN Some(<<"L", "i", "b", "r", "a", "r", "y", " ", "t", "y", "p", "e", " ", "e", "r", "r", "o", "r", ":">>)
                   ELSE Null
         ELSE Null

\* message: the contents of the error's message units
getKindMessage(kind, level, message) ==
    IF Len(message) > 0 /\ NotNull(KindDescr(kind, level, message[1].loc))
    THEN <<[context |-> message[1].context, loc |-> message[1].loc,
            descr |-> KindDescr(kind, level, message[1].loc).v, type |-> "Blame",
            indent |-> Absent]>>
    ELSE <<>>

\* "Error:" put before the operation instead of after it
getOpReason_errorFirst(h, op) ==
    IF NotNull(op)
    THEN [val |-> <<Len(h) + 1, op.v>>, heap |-> Append(h, mkComment(<<"E", "r", "r", "o", "r", ":">>))]
    ELSE [val |-> <<>>, heap |-> h]

\* op: the optional address of the operation unit
getOpReason(h, op) ==
    IF NotNull(op)
    THEN [val |-> <<op.v, Len(h) + 1>>, heap |-> Append(h, mkComment(<<"E", "r", "r", "o", "r", ":">>))]
    ELSE [val |-> <<>>, heap |-> h]

RECURSIVE AddIndent_reset(_, _)
\* message.indent = 2: the indent set, not added to
AddIndent_reset(h, messages) ==
    IF messages = <<>> THEN h
    ELSE AddIndent_reset([h EXCEPT ![Head(messages)].indent = Some(2)],
                         Tail(messages))

RECURSIVE AddIndent(_, _)
\* messages.forEach(message => message.indent = (message.indent || 0)+2)
AddIndent(h, messages) ==
    IF messages = <<>> THEN h
    ELSE AddIndent([h EXCEPT ![Head(messages)].indent = Some(IndentOr0(@) + 2)],
                   Tail(messages))

RECURSIVE getExtraMessages(_, _)
RECURSIVE ExtraReduce(_, _, _)
\* extra.reduce((acc, current) => ..., []) from accumulator acc on
ExtraReduce(h, acc, extra) ==
    IF extra = <<>> THEN [val |-> acc, heap |-> h]
    ELSE Let(IF NotNull(Head(extra).children)
             THEN getExtraMessages(h, Head(extra).children)
             ELSE [val |-> <<>>, heap |-> h], LAMBDA childrenMessages :
             ExtraReduce(childrenMessages.heap,
                         acc \o Head(extra).message \o childrenMessages.val,
                         Tail(extra)))

getExtraMessages(h, extra) ==
    IF NotNull(extra)
    THEN Let(ExtraReduce(h, <<>>, extra.v), LAMBDA messages :
             [val |-> messages.val,
              heap |-> AddIndent(messages.heap, messages.val)])
    ELSE [val |-> <<>>, heap |-> h]

\* The unit getTraceReasons puts before the trace
TraceHeading == Message(<<"T", "r", "a", "c", "e", ":">>, "Blame")

getTraceReasons(h, trace) ==
    IF NotNull(trace) /\ Len(trace.v) > 0
    THEN [val |-> <<Len(h) + 1>> \o trace.v, heap |-> Append(h, TraceHeading)]
    ELSE [val |-> <<>>, heap |-> h]

(***************************************************************************)
(* Renderer: prettyPrintMessage                                            *)
(***************************************************************************)
\* Array((indent || 0)+1).join(" ")
indentation(indent) == Repeat(" ", IndentOr0(indent))

startCol(loc) == loc.start.column - 1

lineStr(loc) ==
    (IF Len(String(loc.start.line)) < 3
     THEN SliceLast(<<" ", " ", " ">> \o String(loc.start.line), 3)
     ELSE String(loc.start.line))
    \o <<":", " ">>

\* context.length >= startCol instead of context.length > startCol
padding_atLeast(context, loc) ==
    Repeat(" ", Len(lineStr(loc)))
    \o (IF Len(context) >= startCol(loc)
        THEN BlankOut(Substr0(context, startCol(loc)))
        ELSE <<>>)

padding(context, loc) ==
    Repeat(" ", Len(lineStr(loc)))
    \o (IF Len(context) > startCol(loc)
        THEN BlankOut(Substr0(context, startCol(loc)))
        ELSE <<>>)

\* loc.end.column - loc.start.column: the end column left out
underline_size_exclusive(loc) ==
    IF loc.start.line = loc.end.line
    THEN Max(1, loc.end.column - loc.start.column)
    ELSE 1

\* Without Math.max(1, ...)
underline_size_nomax(loc) ==
    IF loc.start.line = loc.end.line
    THEN loc.end.column - startCol(loc)
    ELSE 1

underline_size(loc) ==
    IF loc.start.line = loc.end.line
    THEN Max(1, loc.end.column - startCol(loc))
    ELSE 1

underline(loc) == Repeat("^", underline_size(loc))

\* context, loc: nullable
contextStr(indent, context, loc) ==
    IF NotNull(context)
    THEN indentation(indent) \o lineStr(loc.v) \o context.v \o NL
         \o indentation(indent) \o padding(context.v, loc.v) \o underline(loc.v)
         \o <<" ">>
    ELSE indentation(indent)

see_another_file(mainFile, loc) ==
    IF loc.source = Some(mainFile)
    THEN <<>>
    ELSE <<".", " ", "S", "e", "e", ":", " ">> \o FormatS(loc.source) \o <<":">> \o String(loc.start.line)

\* m: the contents of the unit
prettyPrintMessage(mainFile, m) ==
    IF NotNull(m.loc)
    THEN contextStr(m.indent, m.context, m.loc) \o m.descr
         \o see_another_file(mainFile, m.loc.v)
    ELSE indentation(m.indent) \o m.descr

(***************************************************************************)
(* prettyPrintError                                                        *)
(***************************************************************************)
\* operation && operation.loc || message[0].loc
MainLoc(h, e) ==
    IF NotNull(e.operation) /\ NotNull(h[e.operation.v].loc)
    THEN h[e.operation.v].loc
    ELSE h[e.message[1]].loc

\* mainLoc && mainLoc.source || "[No file]"
MainFile(mainLoc) ==
    IF NotNull(mainLoc) /\ NotNull(mainLoc.v.source) /\ mainLoc.v.source.v # <<>>
    THEN mainLoc.v.source.v
    ELSE NoFile

\* Fresh objects for a sequence of unit literals
AllocAll(h, objs) ==
    [val |-> [i \in 1..Len(objs) |-> Len(h) + i], heap |-> h \o objs]

\* The prev.descr the merge writes when it folds descr into prev
MergedDescr(prev, descr) ==
    IF prev = <<>> THEN descr ELSE prev \o <<".", " ">> \o descr

\* type == "Comment" instead of type == "Blame"
MergeStep_Comment(h, acc, message) ==
    IF NotNull(h[message].loc) \/ Len(acc) = 0 \/ h[message].type = "Comment"
    THEN [val |-> Append(acc, message), heap |-> h]
    ELSE IF h[message].descr # <<"E", "r", "r", "o", "r", ":">>
         THEN [val |-> acc,
               heap |-> [h EXCEPT ![acc[Len(acc)]].descr =
                                      MergedDescr(@, h[message].descr)]]
         ELSE [val |-> acc, heap |-> h]

\* One step of the merge: the callback of messages.reduce
MergeStep(h, acc, message) ==
    IF NotNull(h[message].loc) \/ Len(acc) = 0 \/ h[message].type = "Blame"
    THEN [val |-> Append(acc, message), heap |-> h]
    ELSE IF h[message].descr # <<"E", "r", "r", "o", "r", ":">>
         THEN [val |-> acc,
               heap |-> [h EXCEPT ![acc[Len(acc)]].descr =
                                      MergedDescr(@, h[message].descr)]]
         ELSE [val |-> acc, heap |-> h]

RECURSIVE MergeReduce(_, _, _)
\* messages.reduce(..., []) from accumulator acc on
MergeReduce(h, acc, messages) ==
    IF messages = <<>> THEN [val |-> acc, heap |-> h]
    ELSE Let(MergeStep(h, acc, Head(messages)), LAMBDA s :
             MergeReduce(s.heap, s.val, Tail(messages)))

\* [].concat(getHeader(..), getKindMessage(..), getOpReason(..), message,
\*           getExtraMessages(..), getTraceReasons(..))
Concat(h, e) ==
    Let(AllocAll(h, getHeader(MainLoc(h, e))), LAMBDA header :
    Let(AllocAll(header.heap,
                 getKindMessage(e.kind, e.level,
                                JSON_stringify_messages(h, e.message))),
        LAMBDA kindm :
    Let(getOpReason(kindm.heap, e.operation), LAMBDA op :
    Let(getExtraMessages(op.heap, e.extra), LAMBDA extra :
    Let(getTraceReasons(extra.heap, e.trace), LAMBDA trace :
        [val |-> header.val \o kindm.val \o op.val \o e.message \o extra.val
                 \o trace.val,
         heap |-> trace.heap])))))

\* messages.map(prettyPrintMessage.bind(null, mainFile))
RenderAll(mainFile, units) ==
    [i \in 1..Len(units) |-> prettyPrintMessage(mainFile, units[i])]

\* Returns the text, the heap the call leaves, and a record of the call's
\* intermediate values: the units after the concat and after the merge.
prettyPrintError(h, error) ==
    Let(Concat(h, h[error]), LAMBDA messages :
    Let(MergeReduce(messages.heap, <<>>, messages.val), LAMBDA merged :
    Let(RenderAll(MainFile(MainLoc(h, h[error])),
                  JSON_stringify_messages(merged.heap, merged.val)),
        LAMBDA lines :
        [text |-> Join(lines, NL),
         heap |-> merged.heap,
         plan |-> [concat |-> JSON_stringify_messages(messages.heap, messages.val),
                   merged |-> JSON_stringify_messages(merged.heap, merged.val),
                   lines |-> lines]])))

(***************************************************************************)
(* prettyPrint, prettyPrintWithHeader                                      *)
(***************************************************************************)
\* result used as it is, without the copy
CopyResult_alias(h, r) == [val |-> r, heap |-> h]

\* result = JSON.parse(JSON.stringify(result))
CopyResult(h, r) == JSON_parse_result(JSON_stringify_result(h, r), h)

RECURSIVE MapPrettyPrintError(_, _)
\* result.errors.map(prettyPrintError)
MapPrettyPrintError(h, errors) ==
    IF errors = <<>> THEN [texts |-> <<>>, heap |-> h, plans |-> <<>>]
    ELSE Let(prettyPrintError(h, Head(errors)), LAMBDA p :
         Let(MapPrettyPrintError(p.heap, Tail(errors)), LAMBDA rest :
             [texts |-> <<p.text>> \o rest.texts,
              heap |-> rest.heap,
              plans |-> <<p.plan>> \o rest.plans]))

prettyPrint(h, r) ==
    Let(CopyResult(h, r), LAMBDA copy :
    Let(MapPrettyPrintError(copy.heap, copy.val.errors), LAMBDA m :
        [text |-> Join(m.texts, <<"\n", "\n">>),
         heap |-> m.heap,
         plans |-> m.plans]))

\* length <= 1 instead of length === 1
Plural_atMostOne(n) == IF n <= 1 THEN <<>> ELSE <<"s">>

\* "" or "s"
Plural(n) == IF n = 1 THEN <<>> ELSE <<"s">>

prettyPrintWithHeader(h, r) ==
    IF r.passed
    THEN [text |-> <<"N", "o", " ", "e", "r", "r", "o", "r", "s">>, heap |-> h, plans |-> <<>>]
    ELSE Let(prettyPrint(h, r), LAMBDA p :
             [text |-> String(Len(r.errors)) \o <<" ", "e", "r", "r", "o", "r">>
                       \o Plural(Len(r.errors)) \o NL \o p.text,
              heap |-> p.heap,
              plans |-> p.plans])

(***************************************************************************)
(* Inputs: FlowResult texts, as Flow's JSON output gives them              *)
(***************************************************************************)
\* The longest current.errors of the reports checked
MaxErrors == 2

\* The longest baseline.errors of the reports checked
MaxBaseline == 1

\* The largest start column of the locations checked
MaxColumn == 3

\* The deepest nesting of extra groups checked
MaxDepth == 2

Pos(line, column) == [line |-> line, column |-> column, offset |-> column - 1]

Loc(source, type, sl, sc, el, ec) ==
    Some([source |-> source, type |-> type, start |-> Pos(sl, sc),
          end |-> Pos(el, ec)])

Unit(descr, type, context, loc, indent) ==
    [descr |-> descr, type |-> type, context |-> context, loc |-> loc,
     indent |-> indent]

Error(kind, level, message, trace, operation, extra) ==
    [kind |-> kind, level |-> level, message |-> message, trace |-> trace,
     operation |-> operation, extra |-> extra]

Group(message, children) == [message |-> message, children |-> children]

Report(passed, errors, flowVersion) ==
    [passed |-> passed, errors |-> errors, flowVersion |-> flowVersion]

A_js == Some(<<"a", ".", "j", "s">>)

B_js == Some(<<"b", ".", "j", "s">>)

Lib_js == Some(<<"l", "i", "b", ".", "j", "s">>)

Src == Some("SourceFile")

Lib == Some("LibFile")

\* Sequences over S of length at most n
SeqsUpTo(S, n) == UNION {[1..k -> S] : k \in 0..n}

\* The example of the specification: foo(); located at 3:1-3:4
CallUnit ==
    Unit(<<"C", "a", "n", "n", "o", "t", " ", "c", "a", "l", "l", " ", "f", "u", "n", "c", "t", "i", "o", "n">>, "Blame", Some(<<"f", "o", "o", "(", ")", ";">>),
         Loc(A_js, Src, 3, 1, 3, 4), Absent)

CommentUnit(descr) == Unit(descr, "Comment", Absent, Absent, Absent)

BlameAt(descr, source, type, line) ==
    Unit(descr, "Blame", Some(<<"x", " ", "=", " ", "y">>), Loc(source, type, line, 1, line, 1), Absent)

ExampleError == Error("infer", "error", <<CallUnit>>, Null, Absent, Absent)

\* The message of ExampleError under another kind, level, operation, trace
\* and extra
SameMessageError ==
    Error("parse", "warning", <<CallUnit>>,
          Some(<<BlameAt(<<"t">>, B_js, Src, 7)>>),
          Some(BlameAt(<<"o", "p">>, A_js, Src, 2)),
          Some(<<Group(<<CommentUnit(<<"w", "h", "y">>)>>, Null)>>))

OtherError ==
    Error("infer", "error",
          <<BlameAt(<<"n", "u", "m", "b", "e", "r">>, A_js, Src, 5), CommentUnit(<<"i", "s", " ", "n", "o", "t">>),
            BlameAt(<<"s", "t", "r", "i", "n", "g">>, B_js, Src, 9)>>,
          Null, Absent,
          Some(<<Group(<<BlameAt(<<"e">>, A_js, Src, 6)>>,
                       Some(<<Group(<<CommentUnit(<<"f">>)>>, Absent)>>))>>))

ErrorPool == {ExampleError, SameMessageError, OtherError}

\* The state after Flow's output was parsed into current and baseline
Loaded(currentText, baselineText) ==
    Let(JSON_parse_result(currentText, <<>>), LAMBDA c :
    Let(JSON_parse_result(baselineText, c.heap), LAMBDA b :
        /\ heap = b.heap
        /\ current = c.val
        /\ baseline = b.val
        /\ orig = [current |-> currentText, baseline |-> baselineText,
                   size |-> Len(b.heap)]
        /\ result = Absent
        /\ last = [fn |-> "load"]))

\* Two reports of a few errors each
Init ==
    \E ce \in SeqsUpTo(ErrorPool, MaxErrors), be \in SeqsUpTo(ErrorPool, MaxBaseline),
       passed \in BOOLEAN :
        Loaded(Report(passed, ce, "0.30.0"), Report(be = <<>>, be, "0.29.0"))

(***************************************************************************)
(* One error, of every shape the planner distinguishes                     *)
(***************************************************************************)
NoLocBlame(descr) == Unit(descr, "Blame", Absent, Absent, Absent)

\* A unit located in a file whose source is src (null for a builtin)
Sourced(descr, src) ==
    Unit(descr, "Blame", Some(<<"x", " ", "=", " ", "y">>), Loc(src, Null, 3, 1, 3, 1), Absent)

MessagePool ==
    {<<CallUnit>>,
     <<BlameAt(<<"l">>, Lib_js, Lib, 4), CommentUnit(<<"c">>)>>,
     <<CommentUnit(<<"x">>)>>,
     <<Sourced(<<"n">>, Null)>>,
     <<Sourced(<<"m">>, Some(<<>>)), Sourced(<<"k">>, A_js)>>,
     <<BlameAt(<<"p">>, A_js, Src, 5), BlameAt(<<"q">>, B_js, Src, 9),
       CommentUnit(<<"r">>), CommentUnit(<<"E", "r", "r", "o", "r", ":">>),
       Unit(<<"v">>, "Comment", Null, Loc(A_js, Src, 5, 2, 6, 1), Some(1))>>,
     <<NoLocBlame(<<"u">>), Unit(<<"w">>, "Blame", Absent, Null, Absent)>>}

KindLevels ==
    {<<"infer", "error">>, <<"infer", "warning">>, <<"internal", "error">>,
     <<"parse", "error">>, <<"parse", "warning">>}

Operations ==
    {Absent, Some(BlameAt(<<"o", "p">>, B_js, Src, 2)), Some(CommentUnit(<<"o">>))}

Traces ==
    {Null, Some(<<>>),
     Some(<<CommentUnit(<<"s">>), BlameAt(<<"t">>, B_js, Src, 7), NoLocBlame(<<"y">>)>>)}

GroupMessages ==
    {<<CommentUnit(<<"e">>)>>,
     <<Unit(<<"g">>, "Blame", Some(<<"x", " ", "=", " ", "y">>), Loc(B_js, Src, 8, 1, 8, 1), Some(1)),
       CommentUnit(<<"h">>)>>}

RECURSIVE ExtraPool(_)
\* extra arrays of one or two groups, nested at most d deep
ExtraPool(d) ==
    IF d = 0 THEN {}
    ELSE {<<Group(m, c)>> \o s :
            m \in GroupMessages,
            c \in {Null} \cup {Some(x) : x \in ExtraPool(d - 1)},
            s \in {<<>>, <<Group(<<CommentUnit(<<"z">>)>>, Absent)>>}}

\* Every kind, message, operation and trace, without extra; and every extra
\* under two messages, with and without operation and trace
ErrorShapes ==
    {Error(kl[1], kl[2], m, t, o, Absent) :
        kl \in KindLevels, m \in MessagePool, t \in Traces, o \in Operations}
    \cup
    {Error("infer", "error", m, t, o, x) :
        m \in {<<CallUnit>>, <<BlameAt(<<"l">>, Lib_js, Lib, 4), CommentUnit(<<"c">>)>>},
        t \in {Null, Some(<<BlameAt(<<"t">>, B_js, Src, 7)>>)},
        o \in {Absent, Some(BlameAt(<<"o", "p">>, B_js, Src, 2))},
        x \in {Null} \cup {Some(x) : x \in ExtraPool(MaxDepth)}}

InitError ==
    \E e \in ErrorShapes :
        Loaded(Report(FALSE, <<e>>, "0.30.0"), Report(TRUE, <<>>, "0.29.0"))

(***************************************************************************)
(* One located unit, of every geometry the renderer distinguishes          *)
(***************************************************************************)
Contexts == {Null, Some(<<>>), Some(<<"a">>), Some(<<"\t", "b">>), Some(<<"\t", " ", "c", " ", "d">>)}

UnitShapes ==
    {Unit(<<"m", "s", "g">>, "Blame", c,
          Loc(A_js, Src, line, sc, IF multi THEN line + 1 ELSE line, ec), indent) :
        c \in Contexts, line \in {3, 1234}, sc \in 1..MaxColumn, multi \in BOOLEAN,
        ec \in 1..(MaxColumn + 1), indent \in {Absent, Some(2)}}

InitMessage ==
    \E u \in UnitShapes :
        Loaded(Report(FALSE, <<Error("infer", "error", <<u>>, Null, Absent, Absent)>>,
                      "0.30.0"),
               Report(TRUE, <<>>, "0.29.0"))

(***************************************************************************)
(* Operations.  last records the caller's last step: the function called,  *)
(* its arguments as they were at the call, and what it returned.           *)
(***************************************************************************)
Inputs == {"current", "baseline"}

Input(name) == IF name = "current" THEN current ELSE baseline

\* The caller holds current, baseline and the last result of difference;
\* the objects of a result it overwrites are unreachable and are dropped.
Live(h) == SubSeq(h, 1, orig.size)

Assigned(a, b, d) ==
    /\ heap' = d.heap
    /\ result' = Some([report |-> d.val, written |-> FALSE])
    /\ last' = [fn |-> "difference",
                a |-> JSON_stringify_result(heap, Input(a)),
                b |-> JSON_stringify_result(heap, Input(b))]
    /\ UNCHANGED <<current, baseline, orig>>

\* result = difference(a, b)
Difference(a, b) == Assigned(a, b, difference(Live(heap), Input(a), Input(b)))

Printable == Inputs \cup (IF NotNull(result) THEN {"result"} ELSE {})

Arg(name) == IF name = "result" THEN result.v.report ELSE Input(name)

\* The caller's view after a call that returned p: the objects the call
\* allocated are unreachable once it returns.
Returned(fn, name, p) ==
    /\ heap' = SubSeq(p.heap, 1, Len(heap))
    /\ last' = [fn |-> fn,
                arg |-> JSON_stringify_result(heap, Arg(name)),
                text |-> p.text,
                plans |-> p.plans]
    /\ UNCHANGED <<current, baseline, orig, result>>

PrettyPrint(name) == Returned("prettyPrint", name, prettyPrint(heap, Arg(name)))

PrettyPrintWithHeader(name) ==
    Returned("prettyPrintWithHeader", name, prettyPrintWithHeader(heap, Arg(name)))

\* The caller writes once to the result of difference:
\* result.errors[i].kind = ... or result.errors[i].message[0].descr = ...
WriteResult(i, field) ==
    /\ ~result.v.written
    /\ heap' = IF field = "kind"
               THEN [heap EXCEPT ![result.v.report.errors[i]].kind = "written"]
               ELSE [heap EXCEPT
                       ![heap[result.v.report.errors[i]].message[1]].descr = <<"!">>]
    /\ result' = [result EXCEPT !.v.written = TRUE]
    /\ last' = [fn |-> "write"]
    /\ UNCHANGED <<current, baseline, orig>>

Next ==
    \/ \E a \in Inputs, b \in Inputs : Difference(a, b)
    \/ \E name \in Printable : PrettyPrint(name)
    \/ \E name \in Printable : PrettyPrintWithHeader(name)
    \/ /\ NotNull(result)
       /\ \E i \in 1..Len(result.v.report.errors), field \in {"kind", "descr"} :
            WriteResult(i, field)

Spec == Init /\ [][Next]_vars

\* One error of any shape, printed and compared
SpecError == InitError /\ [][Next]_vars

\* One located unit of any geometry, printed and compared
SpecMessage == InitMessage /\ [][Next]_vars

(***************************************************************************)
(* Properties of difference                                                *)
(***************************************************************************)
\* The errors of report text a whose message sequence equals the message
\* sequence of no error of report text b, in a's order
NotIn(a, b) ==
    SelectSeq(a.errors,
              LAMBDA e : \A j \in 1..Len(b.errors) : b.errors[j].message # e.message)

\* The contents of the result of the last difference
ResultText == JSON_stringify_result(heap, result.v.report)

\* C1: difference(current, baseline).errors is the subsequence of
\* current.errors, in order, of the errors whose message sequence is
\* structurally equal to that of no baseline error; passed is true iff it is
\* empty; the version is current's; difference(R, R) is empty and passed.
C1_DifferenceIsMessageSubsequence ==
    last.fn = "difference" =>
        /\ ResultText.errors = NotIn(last.a, last.b)
        /\ ResultText.passed = (ResultText.errors = <<>>)
        /\ ResultText.flowVersion = last.a.flowVersion
        /\ (last.a = last.b => ResultText.errors = <<>> /\ ResultText.passed)

\* A difference that kept one error and dropped another whose message a
\* baseline error has although that baseline error is otherwise different
C1_Witness ==
    /\ last.fn = "difference"
    /\ Len(ResultText.errors) = 1
    /\ Len(last.a.errors) = 2
    /\ \E i \in 1..2, j \in 1..Len(last.b.errors) :
          /\ last.a.errors[i].message = last.b.errors[j].message
          /\ last.a.errors[i].kind # last.b.errors[j].kind
          /\ last.a.errors[i].operation # last.b.errors[j].operation

(***************************************************************************)
(* No operation writes to its inputs                                       *)
(***************************************************************************)
RECURSIVE ExtraAddrs(_)
\* The addresses of the units of an extra array
ExtraAddrs(extra) ==
    IF extra = <<>> THEN {}
    ELSE {Head(extra).message[i] : i \in 1..Len(Head(extra).message)}
         \cup (IF NotNull(Head(extra).children)
               THEN ExtraAddrs(Head(extra).children.v)
               ELSE {})
         \cup ExtraAddrs(Tail(extra))

\* The addresses of the error object and of the units it reaches
ErrorAddrs(h, error) ==
    {error}
    \cup {h[error].message[i] : i \in 1..Len(h[error].message)}
    \cup (IF NotNull(h[error].trace)
          THEN {h[error].trace.v[i] : i \in 1..Len(h[error].trace.v)}
          ELSE {})
    \cup (IF NotNull(h[error].operation) THEN {h[error].operation.v} ELSE {})
    \cup (IF NotNull(h[error].extra) THEN ExtraAddrs(h[error].extra.v) ELSE {})

\* The addresses of the objects report r reaches
Addrs(h, r) == UNION {ErrorAddrs(h, r.errors[i]) : i \in 1..Len(r.errors)}

\* C2: after any calls of difference, prettyPrint and prettyPrintWithHeader,
\* and any write to a result, every field of current and baseline is what it
\* was when they were loaded, and a result of difference reaches no object
\* that current or baseline reaches.
C2_InputsNeverChange ==
    /\ JSON_stringify_result(heap, current) = orig.current
    /\ JSON_stringify_result(heap, baseline) = orig.baseline
    /\ NotNull(result) =>
          Addrs(heap, result.v.report)
              \cap (Addrs(heap, current) \cup Addrs(heap, baseline)) = {}

\* A report with extra units and a comment to merge was printed after the
\* caller wrote to a result of difference
C2_Witness ==
    /\ last.fn \in {"prettyPrint", "prettyPrintWithHeader"}
    /\ last.arg = orig.current
    /\ NotNull(result) /\ result.v.written
    /\ \E i \in 1..Len(last.plans) :
          /\ NotNull(last.arg.errors[i].extra)
          /\ Len(last.plans[i].merged) < Len(last.plans[i].concat)
          /\ \E k \in 1..Len(last.plans[i].concat) :
                IndentOr0(last.plans[i].concat[k].indent) >= 2

(***************************************************************************)
(* Properties of prettyPrint and prettyPrintWithHeader                     *)
(***************************************************************************)
\* The rendering of the i-th error of the last call
Block(i) == Join(last.plans[i].lines, NL)

\* The renderings of the errors, one blank line between two
Blocks == Join([i \in 1..Len(last.plans) |-> Block(i)], <<"\n", "\n">>)

\* C5: prettyPrintWithHeader returns "No errors" when report.passed;
\* otherwise "<N> error" (N = 1) or "<N> errors" (N # 1), a newline, and
\* prettyPrint(report): the errors' renderings in report order with one
\* blank line between two.
C5_HeaderAndBlocks ==
    /\ last.fn = "prettyPrintWithHeader" =>
          IF last.arg.passed
          THEN last.text = <<"N", "o", " ", "e", "r", "r", "o", "r", "s">>
          ELSE /\ Len(last.plans) = Len(last.arg.errors)
               /\ last.text =
                     String(Len(last.arg.errors)) \o <<" ", "e", "r", "r", "o", "r">>
                     \o (IF Len(last.arg.errors) = 1 THEN <<>> ELSE <<"s">>)
                     \o NL \o Blocks
    /\ last.fn = "prettyPrint" =>
          /\ Len(last.plans) = Len(last.arg.errors)
          /\ last.text = Blocks

\* prettyPrintWithHeader of a report of two errors that has not passed
C5_Witness ==
    /\ last.fn = "prettyPrintWithHeader"
    /\ ~last.arg.passed
    /\ Len(last.arg.errors) = 2
    /\ SubSeq(last.text, 1, 9) = <<"2", " ", "e", "r", "r", "o", "r", "s">> \o NL

\* The rendering of ExampleError with n carets
ExampleText(n) ==
    <<"a", ".", "j", "s", ":", "3">> \o NL \o <<" ", " ", "3", ":", " ", "f", "o", "o", "(", ")", ";">> \o NL \o <<" ", " ", " ", " ", " ">> \o Repeat("^", n)
    \o <<" ", "C", "a", "n", "n", "o", "t", " ", "c", "a", "l", "l", " ", "f", "u", "n", "c", "t", "i", "o", "n">>

\* C7 as stated: the example error renders as the header a.js:3, the
\* context line "  3: foo();" and an underline of exactly 3 carets under
\* foo followed by "Cannot call function".
C7_ExampleThreeCarets ==
    (last.fn = "prettyPrint" /\ last.arg.errors = <<ExampleError>>) =>
        last.text = ExampleText(3)

\* C7 as amended: the underline has exactly 4 carets, under "foo(": the
\* end column 4 is included.
C7_ExampleFourCarets ==
    (last.fn = "prettyPrint" /\ last.arg.errors = <<ExampleError>>) =>
        last.text = ExampleText(4)

\* The example error was printed
C7_Witness ==
    /\ last.fn = "prettyPrint"
    /\ last.arg.errors = <<ExampleError>>
    /\ Len(last.text) > 0

(***************************************************************************)
(* Properties of the message planner.  Printed is true after a call of     *)
(* prettyPrint or prettyPrintWithHeader that rendered errors;              *)
(* last.arg.errors[i] is the i-th error given, last.plans[i] its units.    *)
(***************************************************************************)
Printed == last.fn \in {"prettyPrint", "prettyPrintWithHeader"}

Unlocated(u) == ~NotNull(u.loc)

\* C3 as stated: after the merge, no two consecutive units both lack a
\* location unless the first of the two is the first unit.
C3_NoTwoUnlocatedInARow ==
    Printed =>
        \A i \in 1..Len(last.plans) :
            \A k \in 2..(Len(last.plans[i].merged) - 1) :
                ~(Unlocated(last.plans[i].merged[k])
                  /\ Unlocated(last.plans[i].merged[k + 1]))

\* C3 as amended: after the merge, no two consecutive units both lack a
\* location unless the first of the two is the first unit or the second of
\* the two has type Blame.
C3_UnlocatedPairsEndInBlame ==
    Printed =>
        \A i \in 1..Len(last.plans) :
            \A k \in 1..(Len(last.plans[i].merged) - 1) :
                (Unlocated(last.plans[i].merged[k])
                 /\ Unlocated(last.plans[i].merged[k + 1]))
                => (k = 1 \/ last.plans[i].merged[k + 1].type = "Blame")

\* A merge that folded a comment away and left, after the header, two
\* consecutive units without location
C3_Witness ==
    /\ Printed
    /\ \E i \in 1..Len(last.plans) :
          /\ Len(last.plans[i].merged) < Len(last.plans[i].concat)
          /\ \E k \in 2..(Len(last.plans[i].merged) - 1) :
                /\ Unlocated(last.plans[i].merged[k])
                /\ Unlocated(last.plans[i].merged[k + 1])

\* The main location of an error text: the operation's location if it has
\* one, else message[0]'s
MainLocOf(e) ==
    IF NotNull(e.operation) /\ NotNull(e.operation.v.loc)
    THEN e.operation.v.loc
    ELSE e.message[1].loc

\* Whether located unit u lies in the file of the main location of e
InMainFile(u, e) ==
    NotNull(MainLocOf(e)) /\ u.loc.v.source = MainLocOf(e).v.source

SeeSuffix(u) ==
    <<".", " ", "S", "e", "e", ":", " ">> \o FormatS(u.loc.v.source) \o <<":">> \o String(u.loc.v.start.line)

EndsWith(s, t) == Len(s) >= Len(t) /\ SubSeq(s, Len(s) - Len(t) + 1, Len(s)) = t

Contains(s, t) == \E j \in 1..(Len(s) - Len(t) + 1) : SubSeq(s, j, j + Len(t) - 1) = t

\* C4: a located unit whose source differs from the error's main file is
\* rendered with the suffix ". See: <source>:<start.line>", and a unit whose
\* location belongs to the main file, the unit that supplies the main
\* location included, also when that source is null or empty, is rendered
\* without any ". See: ".
C4_SuffixIffOtherFile ==
    Printed =>
        \A i \in 1..Len(last.plans) :
            \A k \in 1..Len(last.plans[i].merged) :
                NotNull(last.plans[i].merged[k].loc) =>
                    IF InMainFile(last.plans[i].merged[k], last.arg.errors[i])
                    THEN ~Contains(last.plans[i].lines[k], <<".", " ", "S", "e", "e", ":", " ">>)
                    ELSE EndsWith(last.plans[i].lines[k],
                                  SeeSuffix(last.plans[i].merged[k]))

\* The extra of an error text flattened in pre-order, every unit of a group
\* at depth d with 2*d added to its indent
Indented(units, n) ==
    [k \in 1..Len(units) |-> [units[k] EXCEPT !.indent = Some(IndentOr0(@) + n)]]

RECURSIVE Flat(_, _)
Flat(groups, d) ==
    IF groups = <<>> THEN <<>>
    ELSE Indented(Head(groups).message, 2 * d)
         \o (IF NotNull(Head(groups).children)
             THEN Flat(Head(groups).children.v, d + 1)
             ELSE <<>>)
         \o Flat(Tail(groups), d)

FlatExtra(e) == IF NotNull(e.extra) THEN Flat(e.extra.v, 1) ELSE <<>>

OpPart(e) ==
    IF NotNull(e.operation)
    THEN <<e.operation.v, Unit(<<"E", "r", "r", "o", "r", ":">>, "Comment", Absent, Absent, Absent)>>
    ELSE <<>>

\* The heading, of type type, and the trace; nothing for no trace
TracePart(e, type) ==
    IF NotNull(e.trace) /\ e.trace.v # <<>>
    THEN <<Unit(<<"T", "r", "a", "c", "e", ":">>, type, Absent, Absent, Absent)>> \o e.trace.v
    ELSE <<>>

\* What follows the header and the kind unit
Body(e, type) == OpPart(e) \o e.message \o FlatExtra(e) \o TracePart(e, type)

\* concat is a header Comment, zero or one Blame unit, and body
ConcatIs(concat, body) ==
    /\ Len(concat) - Len(body) \in {1, 2}
    /\ SubSeq(concat, Len(concat) - Len(body) + 1, Len(concat)) = body
    /\ concat[1].type = "Comment" /\ Unlocated(concat[1])
    /\ Len(concat) - Len(body) = 2 => concat[2].type = "Blame"

\* C8 as stated: the units handed to the merge are, in order, one header
\* Comment unit, zero or one kind unit, the operation and a Comment
\* "Error:" when there is an operation, the message units, the flattened
\* extra units and, for a non-empty trace, a Comment unit "Trace:" and the
\* trace units.
C8_ConcatWithTraceComment ==
    Printed =>
        \A i \in 1..Len(last.plans) :
            ConcatIs(last.plans[i].concat, Body(last.arg.errors[i], "Comment"))

\* C8 as amended: the same, except that the unit "Trace:" has type Blame.
C8_ConcatWithTraceBlame ==
    Printed =>
        \A i \in 1..Len(last.plans) :
            ConcatIs(last.plans[i].concat, Body(last.arg.errors[i], "Blame"))

\* An error with kind unit, operation, extra and trace was planned
C8_Witness ==
    /\ Printed
    /\ \E i \in 1..Len(last.plans) :
          /\ NotNull(last.arg.errors[i].operation)
          /\ FlatExtra(last.arg.errors[i]) # <<>>
          /\ TracePart(last.arg.errors[i], "Blame") # <<>>
          /\ Len(last.plans[i].concat)
                - Len(Body(last.arg.errors[i], "Blame")) = 2

Indents(units) == [k \in 1..Len(units) |-> units[k].indent]

\* The units of concat at the positions from - n + 1 .. from
Before(concat, from, n) == SubSeq(concat, from - n + 1, from)

\* C9: the extra units are the pre-order flattening of extra, a unit from a
\* group at depth d having its original indent (0 when absent) plus 2*d;
\* the units outside extra keep their indent.
C9_ExtraFlattenedAndIndented ==
    Printed =>
        \A i \in 1..Len(last.plans) :
            /\ Before(last.plans[i].concat,
                      Len(last.plans[i].concat)
                          - Len(TracePart(last.arg.errors[i], "Blame")),
                      Len(FlatExtra(last.arg.errors[i])))
                   = FlatExtra(last.arg.errors[i])
            /\ Indents(Before(last.plans[i].concat, Len(last.plans[i].concat),
                              Len(TracePart(last.arg.errors[i], "Blame"))))
                   = Indents(TracePart(last.arg.errors[i], "Blame"))
            /\ Indents(Before(last.plans[i].concat,
                              Len(last.plans[i].concat)
                                  - Len(TracePart(last.arg.errors[i], "Blame"))
                                  - Len(FlatExtra(last.arg.errors[i])),
                              Len(OpPart(last.arg.errors[i]))
                                  + Len(last.arg.errors[i].message)))
                   = Indents(OpPart(last.arg.errors[i]) \o last.arg.errors[i].message)

\* An extra with a group inside a group, whose unit had an indent of its own
C9_Witness ==
    /\ Printed
    /\ \E i \in 1..Len(last.plans) :
          /\ NotNull(last.arg.errors[i].extra)
          /\ \E g \in 1..Len(last.arg.errors[i].extra.v) :
                /\ NotNull(last.arg.errors[i].extra.v[g].children)
                /\ \E c \in 1..Len(last.arg.errors[i].extra.v[g].children.v) :
                      \E k \in 1..Len(last.arg.errors[i].extra.v[g].children.v[c].message) :
                          NotNull(last.arg.errors[i].extra.v[g].children.v[c].message[k].indent)
          /\ \E k \in 1..Len(last.plans[i].concat) :
                last.plans[i].concat[k].indent = Some(5)

(***************************************************************************)
(* Properties of the renderer                                              *)
(***************************************************************************)
\* A unit rendered with context line and underline
Underlined(u) == NotNull(u.loc) /\ NotNull(u.context)

Carets(line) == Cardinality({j \in 1..Len(line) : line[j] = "^"})

\* C6: a unit rendered with location and context has
\* max(1, end.column - (start.column - 1)) carets when start.line = end.line
\* and 1 caret otherwise; an end before the start on one line gives 1 caret.
C6_UnderlineLength ==
    Printed =>
        \A i \in 1..Len(last.plans) :
            \A k \in 1..Len(last.plans[i].merged) :
                Underlined(last.plans[i].merged[k]) =>
                    Carets(last.plans[i].lines[k]) =
                        IF last.plans[i].merged[k].loc.v.start.line
                               = last.plans[i].merged[k].loc.v.end.line
                           /\ last.plans[i].merged[k].loc.v.end.column
                               > last.plans[i].merged[k].loc.v.start.column
                        THEN last.plans[i].merged[k].loc.v.end.column
                               - (last.plans[i].merged[k].loc.v.start.column - 1)
                        ELSE 1

\* A unit whose location ends before it starts, on one line, was rendered
C6_Witness ==
    /\ Printed
    /\ \E i \in 1..Len(last.plans) :
          \E k \in 1..Len(last.plans[i].merged) :
              /\ Underlined(last.plans[i].merged[k])
              /\ last.plans[i].merged[k].loc.v.start.line
                    = last.plans[i].merged[k].loc.v.end.line
              /\ last.plans[i].merged[k].loc.v.end.column
                    < last.plans[i].merged[k].loc.v.start.column - 1
              /\ Carets(last.plans[i].lines[k]) = 1

\* The index of the first c in s
First(s, c) == CHOOSE j \in 1..Len(s) : s[j] = c /\ \A q \in 1..(j - 1) : s[q] # c

\* The second row of an underlined unit's rendering
Row2(line) == SubSeq(line, First(line, "\n") + 1, Len(line))

\* What stands between the indentation and the first caret
PaddingOf(u, line) == SubSeq(Row2(line), IndentOr0(u.indent) + 1, First(Row2(line), "^") - 1)

\* The length of the label: the line number at width 3 at least, and ": "
LabelLen(u) ==
    (IF Len(String(u.loc.v.start.line)) < 3 THEN 3 ELSE Len(String(u.loc.v.start.line)))
    + 2

\* The first n characters of context, all but tabs turned into spaces
Blanked(context, n) == [j \in 1..n |-> IF context[j] = "\t" THEN "\t" ELSE " "]

\* C10 as stated: the padding is the label's length in spaces, followed by
\* the blanked first startCol characters of the context whenever the context
\* has at least startCol characters.
C10_PaddingWhenAtLeast ==
    Printed =>
        \A i \in 1..Len(last.plans) :
            \A k \in 1..Len(last.plans[i].merged) :
                Underlined(last.plans[i].merged[k]) =>
                    PaddingOf(last.plans[i].merged[k], last.plans[i].lines[k]) =
                        Repeat(" ", LabelLen(last.plans[i].merged[k]))
                        \o (IF Len(last.plans[i].merged[k].context.v)
                                 >= last.plans[i].merged[k].loc.v.start.column - 1
                            THEN Blanked(last.plans[i].merged[k].context.v,
                                         last.plans[i].merged[k].loc.v.start.column - 1)
                            ELSE <<>>)

\* C10 as amended: ... whenever the context has more than startCol
\* characters; a context of exactly startCol characters, like a shorter
\* one, gets only the label's length in spaces.
C10_PaddingWhenLonger ==
    Printed =>
        \A i \in 1..Len(last.plans) :
            \A k \in 1..Len(last.plans[i].merged) :
                Underlined(last.plans[i].merged[k]) =>
                    PaddingOf(last.plans[i].merged[k], last.plans[i].lines[k]) =
                        Repeat(" ", LabelLen(last.plans[i].merged[k]))
                        \o (IF Len(last.plans[i].merged[k].context.v)
                                 > last.plans[i].merged[k].loc.v.start.column - 1
                            THEN Blanked(last.plans[i].merged[k].context.v,
                                         last.plans[i].merged[k].loc.v.start.column - 1)
                            ELSE <<>>)

\* A unit whose context has exactly startCol >= 1 characters was rendered
C10_Witness ==
    /\ Printed
    /\ \E i \in 1..Len(last.plans) :
          \E k \in 1..Len(last.plans[i].merged) :
              /\ Underlined(last.plans[i].merged[k])
              /\ last.plans[i].merged[k].loc.v.start.column > 1
              /\ Len(last.plans[i].merged[k].context.v)
                    = last.plans[i].merged[k].loc.v.start.column - 1

====
